---- MODULE Spec2Model ----
(***************************************************************************)
(* copilot-auto-continue: a console snippet that clicks the "Continue"     *)
(* button of the host page.  The model covers the script state (lastClick, *)
(* intervalId, observer, paused), the three panel buttons' disabled flags, *)
(* the log window, and the parts of the host the script talks to: the      *)
(* clock (Date.now), the timers (setInterval / clearInterval), the         *)
(* mutation observers, and the document's candidate elements.              *)
(***************************************************************************)
EXTENDS Integers, Sequences, FiniteSets, TLC

(* ------------------------------ bounds --------------------------------- *)

\* Date.now() when the script is pasted (ms); any reading above COOLDOWN_MS
StartTime == 10000

\* the clock is followed for this many ms after StartTime
MaxElapsed == 5000

\* at most this many candidate elements are in the document at once
MaxButtons == 2

(* --------------------------- program constants ------------------------- *)

COOLDOWN_MS == 2500

\* the value of a variable holding null (intervalId, observer)
Null == 0

(* ------------------------------- text ---------------------------------- *)

\* characters String.prototype.trim removes
WhiteSpace == {" ", "\t", "\n"}

LContinue == <<"C","o","n","t","i","n","u","e">>
LPadded   == <<" ">> \o LContinue \o <<" ">>
LLower    == <<" ","c","o","n","t","i","n","u","e"," ">>
LAnyway   == LContinue \o <<" ","A","n","y","w","a","y">>

Labels == {LContinue, LPadded, LLower, LAnyway}

RECURSIVE TrimStart(_)
TrimStart(s) ==
  IF s = <<>> THEN s
  ELSE IF Head(s) \in WhiteSpace THEN TrimStart(Tail(s)) ELSE s

RECURSIVE TrimEnd(_)
TrimEnd(s) ==
  IF s = <<>> THEN s
  ELSE IF s[Len(s)] \in WhiteSpace THEN TrimEnd(SubSeq(s, 1, Len(s) - 1)) ELSE s

\* a trim that removes nothing
TrimNothing(s) == s

\* btn.textContent.trim()
Trim(s) == TrimEnd(TrimStart(s))

(* ----------------------------- the document ---------------------------- *)

\* sig: the element matches 'a.monaco-button.monaco-text-button'
\* visible: the element has a layout context (offsetParent !== null)
\* text: its textContent
\* The candidates fail at most one of the three conditions of the scan: an
\* element outside the selector or without layout is labelled "Continue".
Elements ==
  { e \in [sig : BOOLEAN, visible : BOOLEAN, text : Labels] :
      (~e.sig \/ ~e.visible) => (e.sig \/ e.visible) /\ e.text = LContinue }

VARIABLES
  lastClick,      \* let lastClick
  intervalId,     \* let intervalId (Null or a timer handle)
  observer,       \* let observer (Null or an observer handle)
  paused,         \* let paused
  startDisabled,  \* startBtn.disabled
  pauseDisabled,  \* pauseBtn.disabled
  stopDisabled,   \* stopBtn.disabled
  log,            \* the entries of logContainer, in insertion order
  stopAutoContinue, \* window.stopAutoContinue: "undefined" or the function bound
  loaded,         \* the script body has run
  panelAttached,  \* the control panel is a child of document.body
  timers,         \* host: handles of the intervals that are active
  observing,      \* host: handles of the observers observing document.body
  now,            \* host: the reading Date.now() returns
  dom,            \* host: the candidate elements, in document order
  inflight,       \* host: trigger source whose callback is mid-dispatch
  clickTimes,     \* history: Date.now() reading of every btn.click(), in order
  clicked,        \* history: positions in dom clicked by the last step
  lastOp,         \* history: the operation the last step performed
  prevState,      \* history: the Session State the last step started from
  lastCmd,        \* history: the last operator command (start, pause, stop)
  threw,          \* history: the last step ended in an uncaught exception
  \* the variant without the log window (auto-continue.js), loaded in a page
  \* of its own and driven by the same triggers, document, clock and commands
  plain_lastClick,      \* let lastClick
  plain_intervalId,     \* let intervalId
  plain_observer,       \* let observer
  plain_paused,         \* let paused
  plain_startDisabled,  \* startBtn.disabled
  plain_pauseDisabled,  \* pauseBtn.disabled
  plain_stopDisabled,   \* stopBtn.disabled
  plain_timers,         \* host: handles of the intervals that are active
  plain_observing,      \* host: handles of the observers observing document.body
  plain_clickTimes,     \* history: Date.now() reading of every btn.click()
  plain_clicked         \* history: positions in dom clicked by the last step

progVars == <<lastClick, intervalId, observer, paused, log>>
btnVars  == <<startDisabled, pauseDisabled, stopDisabled>>
hostVars == <<timers, observing>>
vars == <<lastClick, intervalId, observer, paused, startDisabled,
          pauseDisabled, stopDisabled, log, stopAutoContinue, loaded, panelAttached, timers,
          observing, now, dom, inflight, clickTimes, clicked, lastOp,
          prevState, lastCmd, threw, plain_lastClick, plain_intervalId,
          plain_observer, plain_paused, plain_startDisabled,
          plain_pauseDisabled, plain_stopDisabled, plain_timers,
          plain_observing, plain_clickTimes, plain_clicked>>
plain_progVars == <<plain_lastClick, plain_intervalId, plain_observer,
                    plain_paused>>
plain_btnVars == <<plain_startDisabled, plain_pauseDisabled,
                   plain_stopDisabled>>
plain_hostVars == <<plain_timers, plain_observing>>

(* ----------------------------- Session State --------------------------- *)

\* The script keeps no state variable: Running is "an interval is set",
\* Paused is "no interval and paused", Stopped is "no interval, not paused".
SessionState ==
  IF intervalId # Null THEN "Running"
  ELSE IF paused THEN "Paused" ELSE "Stopped"

(* ------------------------------- scan ---------------------------------- *)

\* a visibility test that accepts every element
isVisibleAlways(el) == TRUE

isVisible(el) == el.visible

\* Array.from(document.querySelectorAll(...)): positions of the matching
\* elements, in document order
RECURSIVE QueryFrom(_, _)
QueryFrom(d, i) ==
  IF i > Len(d) THEN <<>>
  ELSE IF d[i].sig THEN <<i>> \o QueryFrom(d, i + 1) ELSE QueryFrom(d, i + 1)

querySelectorAll(d) == QueryFrom(d, 1)

\* the loop without its break: it goes on after a click
RECURSIVE ClickLoopNoBreak(_, _, _)
ClickLoopNoBreak(d, buttons, k) ==
  IF k > Len(buttons) THEN <<>>
  ELSE IF ~isVisible(d[buttons[k]]) THEN ClickLoopNoBreak(d, buttons, k + 1)
  ELSE IF Trim(d[buttons[k]].text) = LContinue
       THEN <<buttons[k]>> \o ClickLoopNoBreak(d, buttons, k + 1)
  ELSE ClickLoopNoBreak(d, buttons, k + 1)

\* the for loop of clickIfFound from its k-th iteration on: the positions it
\* clicks, in order
RECURSIVE ClickLoop(_, _, _)
ClickLoop(d, buttons, k) ==
  IF k > Len(buttons) THEN <<>>
  ELSE IF ~isVisible(d[buttons[k]]) THEN ClickLoop(d, buttons, k + 1)
  ELSE IF Trim(d[buttons[k]].text) = LContinue THEN <<buttons[k]>>
  ELSE ClickLoop(d, buttons, k + 1)

\* a gate that still blocks when exactly the cooldown has elapsed
GateOpenInclusive == ~paused /\ ~(now - lastClick <= COOLDOWN_MS)

\* the gate without the cooldown test
GateOpenNoCooldown == ~paused

\* the gate of clickIfFound: TRUE when the scan goes on to the loop
GateOpen == ~paused /\ ~(now - lastClick < COOLDOWN_MS)

Range(s) == { s[i] : i \in DOMAIN s }

\* the entries addLogEntry appends for n clicks made at reading t
Stamps(n, t) == [i \in 1..n |-> t]

\* a scan that sets lastClick whenever it passes the gate
clickIfFoundStampsAlways ==
  LET hits == IF GateOpen THEN ClickLoop(dom, querySelectorAll(dom), 1) ELSE <<>>
  IN /\ clicked' = Range(hits)
     /\ prevState' = SessionState
     /\ threw' = FALSE
     /\ clickTimes' = clickTimes \o Stamps(Len(hits), now)
     /\ lastClick' = IF GateOpen THEN now ELSE lastClick
     /\ log' = log \o Stamps(Len(hits), now)
     /\ UNCHANGED <<intervalId, observer, paused, btnVars, hostVars,
                    stopAutoContinue, loaded, panelAttached, now, dom, lastCmd>>

\* clickIfFound without the call of addLogEntry
clickIfFoundNoLog ==
  LET hits == IF GateOpen THEN ClickLoop(dom, querySelectorAll(dom), 1) ELSE <<>>
  IN /\ clicked' = Range(hits)
     /\ prevState' = SessionState
     /\ threw' = FALSE
     /\ clickTimes' = clickTimes \o Stamps(Len(hits), now)
     /\ lastClick' = IF hits # <<>> THEN now ELSE lastClick
     /\ UNCHANGED <<intervalId, observer, paused, btnVars, hostVars, log,
                    stopAutoContinue, loaded, panelAttached, now, dom, lastCmd>>

\* clickIfFound(): its effect on the script state and on the histories
clickIfFound ==
  LET hits == IF GateOpen THEN ClickLoop(dom, querySelectorAll(dom), 1) ELSE <<>>
  IN /\ clicked' = Range(hits)
     /\ prevState' = SessionState
     /\ threw' = FALSE
     /\ clickTimes' = clickTimes \o Stamps(Len(hits), now)
     /\ lastClick' = IF hits # <<>> THEN now ELSE lastClick
     /\ log' = log \o Stamps(Len(hits), now)
     /\ UNCHANGED <<intervalId, observer, paused, btnVars, hostVars,
                    stopAutoContinue, loaded, panelAttached, now, dom, lastCmd>>

\* clickIfFound() when btn.click() throws on the matched element: nothing
\* catches it, so the statements after the call do not run
clickIfFoundClickThrows ==
  /\ GateOpen
  /\ ClickLoop(dom, querySelectorAll(dom), 1) # <<>>
  /\ clicked' = {}
  /\ prevState' = SessionState
  /\ threw' = TRUE
  /\ UNCHANGED <<progVars, btnVars, hostVars, stopAutoContinue, loaded, panelAttached, now,
                 dom, lastCmd, clickTimes>>

\* a scan that emits the log entry before it sets lastClick
clickIfFoundLogThrowsFirst ==
  LET hits == IF GateOpen THEN ClickLoop(dom, querySelectorAll(dom), 1) ELSE <<>>
  IN /\ hits # <<>>
     /\ clicked' = Range(hits)
     /\ prevState' = SessionState
     /\ threw' = TRUE
     /\ clickTimes' = clickTimes \o Stamps(Len(hits), now)
     /\ UNCHANGED <<progVars, btnVars, hostVars, stopAutoContinue, loaded, panelAttached,
                    now, dom, lastCmd>>

\* clickIfFound() when addLogEntry() throws: btn.click() and lastClick = now
\* have run, the entry is not appended
clickIfFoundLogThrows ==
  LET hits == IF GateOpen THEN ClickLoop(dom, querySelectorAll(dom), 1) ELSE <<>>
  IN /\ hits # <<>>
     /\ clicked' = Range(hits)
     /\ prevState' = SessionState
     /\ threw' = TRUE
     /\ clickTimes' = clickTimes \o Stamps(Len(hits), now)
     /\ lastClick' = now
     /\ UNCHANGED <<intervalId, observer, paused, log, btnVars, hostVars,
                    stopAutoContinue, loaded, panelAttached, now, dom, lastCmd>>

(* --------------------------- Session Controller ------------------------ *)

\* setInterval / new MutationObserver return a handle not in use
Fresh(S) == CHOOSE h \in 1..(Cardinality(S) + 1) : h \notin S

\* Stop enabled only while an interval is set
updateButtonsNoPaused(iid, p) ==
  /\ startDisabled' = (iid # Null)
  /\ pauseDisabled' = (iid = Null)
  /\ stopDisabled'  = (iid = Null)

updateButtons(iid, p) ==
  /\ startDisabled' = (iid # Null)
  /\ pauseDisabled' = (iid = Null)
  /\ stopDisabled'  = (iid = Null /\ ~p)

\* startAuto without its early return
startAutoNoGuard ==
  LET t == Fresh(timers)
      o == Fresh(observing)
  IN /\ paused' = FALSE
     /\ intervalId' = t
     /\ timers' = timers \cup {t}
     /\ observer' = o
     /\ observing' = observing \cup {o}
     /\ updateButtons(t, FALSE)

startAuto ==
  IF intervalId # Null
  THEN UNCHANGED <<intervalId, observer, paused, btnVars, hostVars>>
  ELSE LET t == Fresh(timers)
           o == Fresh(observing)
       IN /\ paused' = FALSE
          /\ intervalId' = t
          /\ timers' = timers \cup {t}
          /\ observer' = o
          /\ observing' = observing \cup {o}
          /\ updateButtons(t, FALSE)

\* startAuto() when observer.observe(document.body, ...) throws: the interval
\* is set and the observer created, updateButtons() is not reached
startAutoObserveThrows ==
  LET t == Fresh(timers)
      o == Fresh(observing)
  IN /\ intervalId = Null
     /\ paused' = FALSE
     /\ intervalId' = t
     /\ timers' = timers \cup {t}
     /\ observer' = o
     /\ UNCHANGED <<observing, btnVars>>

\* pauseAuto without observer.disconnect()
pauseAutoKeepsObserver ==
  IF intervalId = Null
  THEN UNCHANGED <<intervalId, observer, paused, btnVars, hostVars>>
  ELSE /\ timers' = timers \ {intervalId}
       /\ intervalId' = Null
       /\ paused' = TRUE
       /\ UNCHANGED <<observer, observing>>
       /\ updateButtons(Null, TRUE)

\* pauseAuto without its early return
pauseAutoNoGuard ==
  /\ timers' = timers \ {intervalId}
  /\ observing' = observing \ {observer}
  /\ intervalId' = Null
  /\ paused' = TRUE
  /\ UNCHANGED observer
  /\ updateButtons(Null, TRUE)

pauseAuto ==
  IF intervalId = Null
  THEN UNCHANGED <<intervalId, observer, paused, btnVars, hostVars>>
  ELSE /\ timers' = timers \ {intervalId}
       /\ observing' = observing \ {observer}
       /\ intervalId' = Null
       /\ paused' = TRUE
       /\ UNCHANGED observer
       /\ updateButtons(Null, TRUE)

\* stopAuto without clearInterval
stopAutoKeepsTimer ==
  /\ IF intervalId # Null
     THEN /\ observing' = observing \ {observer}
          /\ intervalId' = Null
          /\ UNCHANGED timers
     ELSE UNCHANGED <<intervalId, hostVars>>
  /\ paused' = FALSE
  /\ UNCHANGED observer
  /\ updateButtons(Null, FALSE)

stopAuto ==
  /\ IF intervalId # Null
     THEN /\ timers' = timers \ {intervalId}
          /\ observing' = observing \ {observer}
          /\ intervalId' = Null
     ELSE UNCHANGED <<intervalId, hostVars>>
  /\ paused' = FALSE
  /\ UNCHANGED observer
  /\ updateButtons(Null, FALSE)

(* --------------------- the variant without the log --------------------- *)

plain_SessionState ==
  IF plain_intervalId # Null THEN "Running"
  ELSE IF plain_paused THEN "Paused" ELSE "Stopped"

plain_GateOpen ==
  ~plain_paused /\ ~(now - plain_lastClick < COOLDOWN_MS)

\* a scan that clicks but leaves lastClick alone
plain_clickIfFoundNoStamp ==
  LET hits == IF plain_GateOpen
              THEN ClickLoop(dom, querySelectorAll(dom), 1) ELSE <<>>
  IN /\ plain_clicked' = Range(hits)
     /\ plain_clickTimes' = plain_clickTimes \o [i \in 1..Len(hits) |-> now]
     /\ UNCHANGED <<plain_progVars, plain_btnVars, plain_hostVars>>

\* clickIfFound(): the same gate and loop, console.log in place of the log
\* entry
plain_clickIfFound ==
  LET hits == IF plain_GateOpen
              THEN ClickLoop(dom, querySelectorAll(dom), 1) ELSE <<>>
  IN /\ plain_clicked' = Range(hits)
     /\ plain_clickTimes' = plain_clickTimes \o [i \in 1..Len(hits) |-> now]
     /\ plain_lastClick' = IF hits # <<>> THEN now ELSE plain_lastClick
     /\ UNCHANGED <<plain_intervalId, plain_observer, plain_paused,
                    plain_btnVars, plain_hostVars>>

plain_updateButtons(iid, p) ==
  /\ plain_startDisabled' = (iid # Null)
  /\ plain_pauseDisabled' = (iid = Null)
  /\ plain_stopDisabled'  = (iid = Null /\ ~p)

plain_startAuto ==
  IF plain_intervalId # Null
  THEN UNCHANGED <<plain_intervalId, plain_observer, plain_paused,
                   plain_btnVars, plain_hostVars>>
  ELSE LET t == Fresh(plain_timers)
           o == Fresh(plain_observing)
       IN /\ plain_paused' = FALSE
          /\ plain_intervalId' = t
          /\ plain_timers' = plain_timers \cup {t}
          /\ plain_observer' = o
          /\ plain_observing' = plain_observing \cup {o}
          /\ plain_updateButtons(t, FALSE)

\* startAuto() when observer.observe(document.body, ...) throws
plain_startAutoObserveThrows ==
  IF plain_intervalId # Null
  THEN UNCHANGED <<plain_intervalId, plain_observer, plain_paused,
                   plain_btnVars, plain_hostVars>>
  ELSE LET t == Fresh(plain_timers)
           o == Fresh(plain_observing)
       IN /\ plain_paused' = FALSE
          /\ plain_intervalId' = t
          /\ plain_timers' = plain_timers \cup {t}
          /\ plain_observer' = o
          /\ UNCHANGED <<plain_observing, plain_btnVars>>

plain_pauseAuto ==
  IF plain_intervalId = Null
  THEN UNCHANGED <<plain_intervalId, plain_observer, plain_paused,
                   plain_btnVars, plain_hostVars>>
  ELSE /\ plain_timers' = plain_timers \ {plain_intervalId}
       /\ plain_observing' = plain_observing \ {plain_observer}
       /\ plain_intervalId' = Null
       /\ plain_paused' = TRUE
       /\ UNCHANGED plain_observer
       /\ plain_updateButtons(Null, TRUE)

plain_stopAuto ==
  /\ IF plain_intervalId # Null
     THEN /\ plain_timers' = plain_timers \ {plain_intervalId}
          /\ plain_observing' = plain_observing \ {plain_observer}
          /\ plain_intervalId' = Null
     ELSE UNCHANGED <<plain_intervalId, plain_hostVars>>
  /\ plain_paused' = FALSE
  /\ UNCHANGED plain_observer
  /\ plain_updateButtons(Null, FALSE)

\* what a step that is not a scan leaves alone in this variant
plain_NoScan ==
  /\ plain_clicked' = {}
  /\ UNCHANGED <<plain_lastClick, plain_clickTimes>>

\* a step of the host page: no code of this variant runs
plain_Idle ==
  /\ plain_clicked' = {}
  /\ UNCHANGED <<plain_progVars, plain_btnVars, plain_hostVars,
                 plain_clickTimes>>

\* the same trigger in this variant's page: its callback runs if its own
\* trigger source is attached
plain_Trigger(attached) ==
  IF attached THEN plain_clickIfFound ELSE plain_Idle

(* -------------------------------- actions ------------------------------ *)

\* the histories a step that is not a scan leaves behind
Did(op) ==
  /\ clicked' = {}
  /\ lastOp' = op
  /\ prevState' = SessionState
  /\ threw' = FALSE

\* a script body that does not call startAuto()
LoadNoStart ==
  /\ ~loaded
  /\ updateButtons(intervalId, paused)
  /\ UNCHANGED <<intervalId, observer, paused, hostVars>>
  /\ stopAutoContinue' = "stopAuto"
  /\ loaded' = TRUE
  /\ panelAttached' = TRUE
  /\ Did("load")
  /\ UNCHANGED <<lastClick, log, now, dom, inflight, clickTimes, lastCmd>>
  /\ plain_startAuto /\ plain_NoScan

\* the script body: the panel is built, updateButtons() and startAuto() run
\* (startAuto finds intervalId null, so its updateButtons is the one that
\* stays), and the stop command is exposed on window
Load ==
  /\ ~loaded
  /\ startAuto
  /\ stopAutoContinue' = "stopAuto"
  /\ loaded' = TRUE
  /\ panelAttached' = TRUE
  /\ Did("load")
  /\ UNCHANGED <<lastClick, log, now, dom, inflight, clickTimes, lastCmd>>
  /\ plain_startAuto /\ plain_NoScan

\* the panel's buttons can be clicked only while the panel is in the document
Start ==
  /\ loaded /\ panelAttached
  /\ startAuto
  /\ Did("start")
  /\ lastCmd' = "start"
  /\ UNCHANGED <<lastClick, log, stopAutoContinue, loaded, panelAttached, now, dom, inflight,
                 clickTimes>>
  /\ plain_startAuto /\ plain_NoScan

Pause ==
  /\ loaded /\ panelAttached
  /\ pauseAuto
  /\ Did("pause")
  /\ lastCmd' = "pause"
  /\ UNCHANGED <<lastClick, log, stopAutoContinue, loaded, panelAttached, now, dom, inflight,
                 clickTimes>>
  /\ plain_pauseAuto /\ plain_NoScan

\* a stop that also resets the cooldown timestamp
StopResetsCooldown ==
  /\ loaded /\ panelAttached
  /\ stopAuto
  /\ Did("stop")
  /\ lastCmd' = "stop"
  /\ lastClick' = 0
  /\ UNCHANGED <<log, stopAutoContinue, loaded, panelAttached, now, dom, inflight,
                 clickTimes>>
  /\ plain_stopAuto /\ plain_NoScan

Stop ==
  /\ loaded /\ panelAttached
  /\ stopAuto
  /\ Did("stop")
  /\ lastCmd' = "stop"
  /\ UNCHANGED <<lastClick, log, stopAutoContinue, loaded, panelAttached, now, dom, inflight,
                 clickTimes>>
  /\ plain_stopAuto /\ plain_NoScan

\* window.stopAutoContinue bound to pauseAuto
GlobalStopPauses ==
  /\ stopAutoContinue = "stopAuto"
  /\ pauseAuto
  /\ Did("globalStop")
  /\ lastCmd' = "globalStop"
  /\ UNCHANGED <<lastClick, log, stopAutoContinue, loaded, panelAttached, now, dom, inflight,
                 clickTimes>>
  /\ plain_stopAuto /\ plain_NoScan

\* window.stopAutoContinue() typed in the console
GlobalStop ==
  /\ stopAutoContinue = "stopAuto"
  /\ stopAuto
  /\ Did("globalStop")
  /\ lastCmd' = "globalStop"
  /\ UNCHANGED <<lastClick, log, stopAutoContinue, loaded, panelAttached, now, dom, inflight,
                 clickTimes>>
  /\ plain_stopAuto /\ plain_NoScan

\* a close button whose handler also stops the session
ClosePanelStops ==
  /\ panelAttached
  /\ panelAttached' = FALSE
  /\ stopAuto
  /\ Did("close")
  /\ UNCHANGED <<lastClick, log, stopAutoContinue, loaded, now, dom, inflight,
                 clickTimes, lastCmd>>
  /\ plain_Idle

\* the close button's click handler: panel.remove()
ClosePanel ==
  /\ panelAttached
  /\ panelAttached' = FALSE
  /\ Did("close")
  /\ UNCHANGED <<progVars, btnVars, hostVars, stopAutoContinue, loaded, now,
                 dom, inflight, clickTimes, lastCmd>>
  /\ plain_Idle

\* an interval whose callback is not the scan
TimerTickIdle ==
  /\ timers # {}
  /\ Did("timer")
  /\ UNCHANGED <<progVars, btnVars, hostVars, stopAutoContinue, loaded, panelAttached, now,
                 dom, inflight, clickTimes, lastCmd>>
  /\ plain_Trigger(plain_timers # {})

\* an active interval fires its callback
TimerTick ==
  /\ timers # {}
  /\ clickIfFound
  /\ lastOp' = "timer"
  /\ UNCHANGED inflight
  /\ plain_Trigger(plain_timers # {})

\* an observer of document.body is notified of a change in the subtree
MutationCallback ==
  /\ observing # {}
  /\ clickIfFound
  /\ lastOp' = "mutation"
  /\ UNCHANGED inflight
  /\ plain_Trigger(plain_observing # {})

AdvanceClock(d) ==
  /\ now + d <= StartTime + MaxElapsed
  /\ now' = now + d
  /\ Did("clock")
  /\ UNCHANGED <<progVars, btnVars, hostVars, stopAutoContinue, loaded, panelAttached, dom,
                 inflight, clickTimes, lastCmd>>
  /\ plain_Idle

InsertAt(d, i, e) == SubSeq(d, 1, i - 1) \o <<e>> \o SubSeq(d, i, Len(d))
RemoveAt(d, i) == SubSeq(d, 1, i - 1) \o SubSeq(d, i + 1, Len(d))

\* the host page inserts a candidate element
InsertElement(i, e) ==
  /\ Len(dom) < MaxButtons
  /\ dom' = InsertAt(dom, i, e)
  /\ Did("dom")
  /\ UNCHANGED <<progVars, btnVars, hostVars, stopAutoContinue, loaded, panelAttached, now,
                 inflight, clickTimes, lastCmd>>
  /\ plain_Idle

\* the host page removes a candidate element
RemoveElement(i) ==
  /\ dom' = RemoveAt(dom, i)
  /\ Did("dom")
  /\ UNCHANGED <<progVars, btnVars, hostVars, stopAutoContinue, loaded, panelAttached, now,
                 inflight, clickTimes, lastCmd>>
  /\ plain_Idle

\* the host page shows or hides a candidate element
SetVisible(i) ==
  /\ [dom[i] EXCEPT !.visible = ~dom[i].visible] \in Elements
  /\ dom' = [dom EXCEPT ![i].visible = ~dom[i].visible]
  /\ Did("dom")
  /\ UNCHANGED <<progVars, btnVars, hostVars, stopAutoContinue, loaded, panelAttached, now,
                 inflight, clickTimes, lastCmd>>
  /\ plain_Idle

\* a trigger whose source is attached starts dispatching its callback
BeginDispatch ==
  /\ inflight = "none"
  /\ \/ timers # {} /\ inflight' = "timer"
     \/ observing # {} /\ inflight' = "mutation"
  /\ UNCHANGED <<progVars, btnVars, hostVars, stopAutoContinue, loaded, panelAttached, now,
                 dom, clickTimes, clicked, lastOp, prevState, lastCmd, threw>>
  /\ plain_Idle

\* the callback of the trigger that was mid-dispatch runs, once
CompleteDispatch ==
  /\ inflight # "none"
  /\ clickIfFound
  /\ inflight' = "none"
  /\ lastOp' = "dispatch"
  /\ plain_clickIfFound

\* start() while document.body cannot be observed
StartObserveThrows ==
  /\ loaded /\ panelAttached
  /\ startAutoObserveThrows
  /\ clicked' = {}
  /\ lastOp' = "start"
  /\ prevState' = SessionState
  /\ lastCmd' = "start"
  /\ threw' = TRUE
  /\ UNCHANGED <<lastClick, log, stopAutoContinue, loaded, panelAttached, now, dom, inflight,
                 clickTimes>>
  /\ plain_startAutoObserveThrows /\ plain_NoScan

\* a trigger runs the scan and btn.click() throws
ScanClickThrows ==
  /\ timers # {} \/ observing # {}
  /\ clickIfFoundClickThrows
  /\ lastOp' = "clickThrows"
  /\ UNCHANGED inflight
  /\ plain_Idle

\* a trigger runs the scan and addLogEntry() throws
ScanLogThrows ==
  /\ timers # {} \/ observing # {}
  /\ clickIfFoundLogThrows
  /\ lastOp' = "logThrows"
  /\ UNCHANGED inflight
  /\ plain_Trigger(plain_timers # {} \/ plain_observing # {})

\* the clock is read at the instants that matter to the gate: it moves on by
\* one ms less than the cooldown, or by the cooldown
ClockSteps == {COOLDOWN_MS - 1, COOLDOWN_MS}

Init ==
  /\ lastClick = 0
  /\ intervalId = Null
  /\ observer = Null
  /\ paused = FALSE
  /\ startDisabled = FALSE
  /\ pauseDisabled = FALSE
  /\ stopDisabled = FALSE
  /\ log = <<>>
  /\ stopAutoContinue = "undefined"
  /\ loaded = FALSE
  /\ panelAttached = FALSE
  /\ timers = {}
  /\ observing = {}
  /\ now = StartTime
  /\ dom = <<>>
  /\ inflight = "none"
  /\ clickTimes = <<>>
  /\ clicked = {}
  /\ lastOp = "none"
  /\ prevState = "Stopped"
  /\ lastCmd = "none"
  /\ threw = FALSE
  /\ plain_lastClick = 0
  /\ plain_intervalId = Null
  /\ plain_observer = Null
  /\ plain_paused = FALSE
  /\ plain_startDisabled = FALSE
  /\ plain_pauseDisabled = FALSE
  /\ plain_stopDisabled = FALSE
  /\ plain_timers = {}
  /\ plain_observing = {}
  /\ plain_clickTimes = <<>>
  /\ plain_clicked = {}

Environment ==
  \/ \E d \in ClockSteps : AdvanceClock(d)
  \/ \E i \in 1..(Len(dom) + 1), e \in Elements : InsertElement(i, e)
  \/ \E i \in 1..Len(dom) : RemoveElement(i)
  \/ \E i \in 1..Len(dom) : SetVisible(i)

Next ==
  \/ Load
  \/ Start
  \/ Pause
  \/ Stop
  \/ GlobalStop
  \/ ClosePanel
  \/ TimerTick
  \/ MutationCallback
  \/ Environment

\* the host calls a callback only while its trigger source is attached
Spec == Init /\ [][Next]_vars

NextDispatch ==
  \/ Next
  \/ BeginDispatch
  \/ CompleteDispatch

\* the host may complete, once, a trigger that was mid-dispatch when its
\* source was detached
SpecDispatch == Init /\ [][NextDispatch]_vars

NextFaults ==
  \/ Next
  \/ StartObserveThrows
  \/ ScanClickThrows
  \/ ScanLogThrows

\* the host calls that can throw do: btn.click(), observer.observe() and
\* addLogEntry()
SpecFaults == Init /\ [][NextFaults]_vars

\* an interval that is set keeps firing every second until it is cleared, and
\* the clock keeps advancing
SpecLive ==
  /\ Init
  /\ [][Next]_vars
  /\ WF_vars(TimerTick)
  /\ WF_vars(\E d \in ClockSteps : AdvanceClock(d))

(* ------------------------------ properties ----------------------------- *)

\* a step that runs clickIfFound
ScanStep == TimerTick \/ MutationCallback \/ CompleteDispatch

ScanOps == {"timer", "mutation", "dispatch"}

\* the qualifying elements, stated on the labels themselves
Qualifying(e) == e.sig /\ e.visible /\ e.text \in {LContinue, LPadded}

SomeQualifying == \E i \in DOMAIN dom : Qualifying(dom[i])

CooldownElapsed == now - lastClick >= COOLDOWN_MS

\* C1: any two activations are at least COOLDOWN_MS apart, whatever the
\* interleaving of timer ticks, change notifications and commands.
C1_CooldownInvariant ==
  \A i, j \in DOMAIN clickTimes :
    i < j => clickTimes[j] - clickTimes[i] >= COOLDOWN_MS

\* two activations have happened and a later scan, inside the window and with
\* a qualifying element present, clicked nothing
C1_Witness ==
  /\ Len(clickTimes) >= 2
  /\ lastOp \in ScanOps
  /\ SessionState = "Running"
  /\ ~CooldownElapsed
  /\ SomeQualifying
  /\ clicked = {}

\* C2: a scan invoked while the Session State is Stopped or Paused, also by a
\* trigger that was mid-dispatch when pause() or stop() was called, performs
\* no activation and leaves the cooldown timestamp and the log unchanged.
C2_ScanNoOpUnlessRunning ==
  [][(ScanStep /\ SessionState # "Running")
       => (clickTimes' = clickTimes /\ lastClick' = lastClick /\ log' = log)]_vars

\* C3: start() leaves the session Running with exactly one active timer and
\* one attached subscription, the ones the script holds; from Running it
\* changes nothing.
C3_StartIdempotent ==
  [][Start =>
       /\ SessionState' = "Running"
       /\ Cardinality(timers') = 1 /\ timers' = {intervalId'}
       /\ Cardinality(observing') = 1 /\ observing' = {observer'}
       /\ (SessionState = "Running"
             => UNCHANGED <<progVars, btnVars, hostVars>>)]_vars

\* start() was called while Running
C3_Witness ==
  /\ lastOp = "start"
  /\ prevState = "Running"
  /\ SessionState = "Running"
  /\ Cardinality(timers) = 1

\* C4: pause() moves Running to Paused and a later start() moves Paused to
\* Running; pause() from Stopped or Paused changes no state.
C4_PauseOnlyFromRunning ==
  [][/\ Pause => IF SessionState = "Running"
                 THEN SessionState' = "Paused"
                 ELSE UNCHANGED <<progVars, btnVars, hostVars>>
     /\ (Start /\ SessionState = "Paused") => SessionState' = "Running"]_vars

\* pause() was called while Stopped
C4_Witness ==
  /\ lastOp = "pause"
  /\ prevState = "Stopped"
  /\ SessionState = "Stopped"

\* C5: stop() moves Running or Paused to Stopped and changes nothing from
\* Stopped; once Stopped, the session stays Stopped and no activation occurs
\* until start() is called.
C5_StopDisablesScanning ==
  [][/\ (Stop \/ GlobalStop) =>
          /\ SessionState' = "Stopped"
          /\ (SessionState = "Stopped"
                => UNCHANGED <<progVars, btnVars, hostVars>>)
     /\ (loaded /\ SessionState = "Stopped" /\ ~Start) =>
          (SessionState' = "Stopped" /\ clickTimes' = clickTimes)]_vars

\* the session was stopped after an activation, the cooldown has since
\* elapsed and a qualifying element is present
C5_Witness ==
  /\ lastCmd = "stop"
  /\ lastOp = "clock"
  /\ SessionState = "Stopped"
  /\ clickTimes # <<>>
  /\ CooldownElapsed
  /\ SomeQualifying

\* C6: once the script has loaded, Start is enabled iff the state is not
\* Running, Pause iff it is Running, Stop iff it is Running or Paused.
C6_ButtonsProjectState ==
  loaded =>
    /\ ~startDisabled <=> SessionState # "Running"
    /\ ~pauseDisabled <=> SessionState = "Running"
    /\ ~stopDisabled  <=> SessionState \in {"Running", "Paused"}

\* the session is Paused: Start and Stop enabled, Pause disabled
C6_Witness ==
  /\ loaded
  /\ SessionState = "Paused"
  /\ ~startDisabled /\ pauseDisabled /\ ~stopDisabled

\* C7: a scan activates at most one element; an activated element is the
\* first qualifying one in document order, and a scan that passes the gate
\* with a qualifying element present activates one.
C7_FirstMatchOnly ==
  [][ScanStep =>
       /\ Cardinality(clicked') <= 1
       /\ Len(clickTimes') <= Len(clickTimes) + 1
       /\ \A i \in clicked' :
            Qualifying(dom[i]) /\ \A j \in 1..(i - 1) : ~Qualifying(dom[j])
       /\ (SessionState = "Running" /\ CooldownElapsed /\ SomeQualifying)
            => clicked' # {}]_vars

\* two qualifying elements were present and the scan clicked the first only
C7_Witness ==
  /\ lastOp \in ScanOps
  /\ Len(dom) = 2
  /\ Qualifying(dom[1]) /\ Qualifying(dom[2])
  /\ clicked = {1}

\* C8: an element is activated only if it matches the selector, is visible
\* and is labelled "Continue" up to surrounding white space ("Continue
\* Anyway", " continue " and hidden elements never are), and a scan that
\* passes the gate activates an element iff such an element is present.
C8_ExactTrimmedLabel ==
  [][ScanStep =>
       /\ \A i \in clicked' :
            /\ dom[i].sig
            /\ dom[i].visible
            /\ dom[i].text \notin {LAnyway, LLower}
            /\ dom[i].text \in {LContinue, LPadded}
       /\ (SessionState = "Running" /\ CooldownElapsed)
            => (clicked' # {} <=> SomeQualifying)]_vars

\* the scan passed over a visible "Continue Anyway" and clicked " Continue "
C8_Witness ==
  /\ lastOp \in ScanOps
  /\ Len(dom) = 2
  /\ dom[1].sig /\ dom[1].visible /\ dom[1].text = LAnyway
  /\ dom[2].text = LPadded
  /\ clicked = {2}

\* C9: after the script has loaded and until an operator command is issued,
\* the session is Running with its timer and its subscription attached, Start
\* disabled, Pause and Stop enabled.
C9_RunningAfterLoad ==
  (loaded /\ lastCmd = "none") =>
    /\ SessionState = "Running"
    /\ timers = {intervalId}
    /\ observing = {observer}
    /\ startDisabled /\ ~pauseDisabled /\ ~stopDisabled

\* a scan activated an element with no operator command issued since load
C9_Witness ==
  /\ loaded
  /\ lastCmd = "none"
  /\ lastOp \in ScanOps
  /\ clicked # {}

\* C10: window.stopAutoContinue() and the panel's stop() have the same
\* outcome from every Session State: Stopped, no active timer, no attached
\* subscription, Start enabled, Pause and Stop disabled, and the cooldown
\* timestamp and the log as they were.
C10_GlobalStopIsStop ==
  [][(GlobalStop \/ Stop) =>
       /\ SessionState' = "Stopped"
       /\ intervalId' = Null /\ ~paused'
       /\ timers' = {} /\ observing' = {}
       /\ ~startDisabled' /\ pauseDisabled' /\ stopDisabled'
       /\ UNCHANGED <<lastClick, log>>]_vars

\* window.stopAutoContinue() was called while Running
C10_Witness ==
  /\ lastOp = "globalStop"
  /\ prevState = "Running"
  /\ SessionState = "Stopped"

\* the first qualifying element in document order
FirstQualifying ==
  CHOOSE i \in DOMAIN dom :
    Qualifying(dom[i]) /\ \A j \in 1..(i - 1) : ~Qualifying(dom[j])

\* the reading of the latest activation is less than a cooldown old
InWindow ==
  clickTimes # <<>> /\ now - clickTimes[Len(clickTimes)] < COOLDOWN_MS

\* C11: while Running, a scan that finds only hidden or unlabelled candidates
\* activates nothing; with no prior activation a scan that finds a visible
\* qualifying element activates exactly one element and the log gains exactly
\* one entry; inside the cooldown window of the latest activation no scan
\* activates anything; once the window is over the next scan activates the
\* first qualifying element that remains.
C11_EndToEnd ==
  [][(ScanStep /\ SessionState = "Running") =>
       /\ ~SomeQualifying => (clicked' = {} /\ log' = log)
       /\ (clickTimes = <<>> /\ SomeQualifying) =>
            /\ Cardinality(clicked') = 1
            /\ Len(clickTimes') = 1
            /\ Len(log') = Len(log) + 1
       /\ InWindow => (clicked' = {} /\ log' = log)
       /\ (clickTimes # <<>> /\ ~InWindow /\ SomeQualifying) =>
            clicked' = {FirstQualifying}]_vars

\* the end of the scenario: two activations and two log entries, the second
\* with two qualifying elements in the document, no command issued
C11_Witness ==
  /\ lastCmd = "none"
  /\ lastOp \in ScanOps
  /\ Len(clickTimes) = 2
  /\ Len(log) = 2
  /\ Len(dom) = 2
  /\ Qualifying(dom[1]) /\ Qualifying(dom[2])
  /\ clicked = {1}

\* C12: the log holds one entry per activation performed so far, the latest
\* carrying the cooldown timestamp; the log only grows, by one entry at its
\* end, and only in a scan that activates an element.
C12_LogMatchesActivations ==
  /\ [](/\ Len(log) = Len(clickTimes)
        /\ log # <<>> => log[Len(log)] = lastClick)
  /\ [][\/ log' = log
        \/ /\ ScanStep
           /\ clicked' # {}
           /\ lastClick' = now
           /\ log' = Append(log, now)]_vars

\* a second activation has just been logged
C12_Witness ==
  /\ lastOp \in ScanOps
  /\ clicked # {}
  /\ Len(log) = 2
  /\ Len(clickTimes) = 2

\* C13: when the activation call on the matched element fails, no error
\* propagates out of the scan and the Session State is unchanged.
C13_ClickFailureIgnored ==
  [][(ScanStep \/ ScanClickThrows)
       => (~threw' /\ SessionState' = SessionState)]_vars

\* C14: when attaching the subscription fails during start() from Stopped,
\* the session remains Stopped: no timer is left running, no subscription is
\* attached and the buttons reflect Stopped.
C14_FailedStartStaysStopped ==
  [][(StartObserveThrows /\ SessionState = "Stopped") =>
       /\ SessionState' = "Stopped"
       /\ timers' = {} /\ observing' = {}
       /\ ~startDisabled' /\ pauseDisabled' /\ stopDisabled']_vars

\* C15: a scan whose log emission fails has performed the click and has set
\* the cooldown timestamp; the timestamp is always the reading of the latest
\* activation, and no scan inside its window activates anything.
C15_LogFailureKeepsActivation ==
  /\ [][ScanLogThrows =>
          /\ clicked' # {}
          /\ lastClick' = now
          /\ clickTimes' = Append(clickTimes, now)]_vars
  /\ [](clickTimes # <<>> => lastClick = clickTimes[Len(clickTimes)])
  /\ [][((ScanStep \/ ScanLogThrows \/ ScanClickThrows) /\ InWindow)
          => clickTimes' = clickTimes]_vars

\* a log emission failed, and a later scan inside the window of that
\* activation, with a qualifying element present, clicked nothing
C15_Witness ==
  /\ Len(log) < Len(clickTimes)
  /\ lastOp \in ScanOps
  /\ SessionState = "Running"
  /\ InWindow
  /\ SomeQualifying
  /\ clicked = {}

\* the session is Running and position i holds a qualifying element
Present(i) ==
  SessionState = "Running" /\ i \in DOMAIN dom /\ Qualifying(dom[i])

\* the clock, which stops within COOLDOWN_MS - 2 of the end of the time
\* followed, is certain to reach the reading at which the gate reopens
GateWillReopen ==
  lastClick + COOLDOWN_MS <= StartTime + MaxElapsed - (COOLDOWN_MS - 2)

\* C16 as stated: every qualifying element that stays present while the
\* session stays Running is eventually activated.
C16_EveryElementActivated ==
  \A i \in 1..MaxButtons :
    (Present(i) /\ GateWillReopen) ~> (i \in clicked \/ ~Present(i))

\* C16: while the session stays Running and a qualifying element stays
\* present, the first qualifying element in document order is eventually
\* activated, by the timer alone and also when it appeared inside a cooldown
\* window.
C16_FirstElementActivated ==
  (SessionState = "Running" /\ SomeQualifying /\ GateWillReopen)
    ~> \/ clicked # {} /\ clicked = {FirstQualifying}
       \/ ~(SessionState = "Running" /\ SomeQualifying)

\* a timer tick activated an element that was present throughout the cooldown
\* window of the previous activation
C16_Witness ==
  /\ lastOp = "timer"
  /\ Len(clickTimes) = 2
  /\ clickTimes[2] - clickTimes[1] = COOLDOWN_MS
  /\ clicked = {1}
  /\ lastCmd = "none"

\* C17: the periodic timer is active iff the subscription is attached iff the
\* Session State is Running, and they are the ones the script holds; pause()
\* and stop() detach both in the step that changes the state, and a trigger
\* source calls the scan only while Running.
C17_TriggersTrackState ==
  /\ [](/\ timers # {} <=> SessionState = "Running"
        /\ observing # {} <=> SessionState = "Running"
        /\ SessionState = "Running" =>
             (timers = {intervalId} /\ observing = {observer}))
  /\ [][(Pause \/ Stop \/ GlobalStop) =>
          (timers' = {} /\ observing' = {} /\ SessionState' # "Running")]_vars
  /\ [][(TimerTick \/ MutationCallback) => SessionState = "Running"]_vars

\* pause() has just detached the timer and the subscription of a Running
\* session
C17_Witness ==
  /\ lastOp = "pause"
  /\ prevState = "Running"
  /\ SessionState = "Paused"
  /\ timers = {} /\ observing = {}

\* C18: the cooldown timestamp changes only in a scan that has just activated
\* an element, to the current reading; start(), pause() and stop() leave it as
\* it is, so a scan inside the window of the latest activation activates
\* nothing, whatever commands came in between.
C18_OnlyScanWritesCooldown ==
  /\ [][lastClick' # lastClick =>
          (ScanStep /\ clicked' # {} /\ lastClick' = now)]_vars
  /\ [][(Load \/ Start \/ Pause \/ Stop \/ GlobalStop) =>
          lastClick' = lastClick]_vars
  /\ [][(ScanStep /\ InWindow) => (clicked' = {} /\ lastClick' = lastClick)]_vars

\* after an activation and a stop(), start() was called inside the cooldown
\* window with a qualifying element present: the timestamp is still that of
\* the activation
C18_Witness ==
  /\ lastOp = "start"
  /\ prevState = "Stopped"
  /\ SessionState = "Running"
  /\ InWindow
  /\ SomeQualifying
  /\ lastClick = clickTimes[Len(clickTimes)]

\* C19: a scan that finds no qualifying element, or that the cooldown gate
\* blocks, raises no error and changes nothing: Session State, trigger
\* attachment, cooldown timestamp, log and button enablement stay as they
\* were.
C19_IdleScanIsNoOp ==
  [][(ScanStep /\ (~SomeQualifying \/ ~CooldownElapsed)) =>
       /\ ~threw'
       /\ clicked' = {}
       /\ UNCHANGED <<progVars, btnVars, hostVars, stopAutoContinue,
                      clickTimes, now, dom>>]_vars

\* a Running scan passed the gate, found candidates but none qualifying, and
\* clicked nothing
C19_Witness ==
  /\ lastOp \in ScanOps
  /\ prevState = "Running"
  /\ CooldownElapsed
  /\ dom # <<>>
  /\ ~SomeQualifying
  /\ clicked = {}

\* C20: a Running scan with a qualifying element present is blocked iff less
\* than COOLDOWN_MS has elapsed since the last activation (it activates at
\* exactly COOLDOWN_MS), and with no previous activation the gate is open.
C20_GateBoundary ==
  /\ [][(ScanStep /\ SessionState = "Running" /\ SomeQualifying) =>
          (clicked' = {} <=> now - lastClick < COOLDOWN_MS)]_vars
  /\ [](clickTimes = <<>> => now - lastClick >= COOLDOWN_MS)

\* a scan activated an element exactly COOLDOWN_MS after the previous
\* activation
C20_Witness ==
  /\ lastOp \in ScanOps
  /\ clicked # {}
  /\ Len(clickTimes) >= 2
  /\ now - clickTimes[Len(clickTimes) - 1] = COOLDOWN_MS

\* C21: closing the control panel changes neither the Session State, nor the
\* two trigger sources, nor the cooldown timestamp. With the panel removed a
\* running session keeps both triggers and a scan still activates the first
\* qualifying element; window.stopAutoContinue() is still bound and still
\* takes the session to Stopped with both triggers detached.
C21_CloseLeavesSession ==
  /\ [][ClosePanel =>
          /\ SessionState' = SessionState
          /\ UNCHANGED <<intervalId, observer, paused, timers, observing,
                         lastClick, btnVars>>]_vars
  /\ []((loaded /\ ~panelAttached) =>
          /\ stopAutoContinue = "stopAuto"
          /\ SessionState = "Running" => (timers # {} /\ observing # {}))
  /\ [][(ScanStep /\ ~panelAttached /\ SessionState = "Running"
           /\ SomeQualifying /\ CooldownElapsed) =>
          /\ clicked' = {FirstQualifying}
          /\ lastClick' = now]_vars
  /\ [][(GlobalStop /\ ~panelAttached) =>
          /\ SessionState' = "Stopped"
          /\ timers' = {} /\ observing' = {}
          /\ lastClick' = lastClick]_vars

\* with the panel removed, the interval fired and the scan activated an
\* element
C21_Witness ==
  /\ loaded
  /\ ~panelAttached
  /\ lastOp = "timer"
  /\ prevState = "Running"
  /\ clicked # {}
  /\ lastClick = now

\* C22: the variant with the log window and the variant without it, driven
\* by the same triggers, document contents, clock readings and commands,
\* agree at every step on the Session State, on which trigger sources are
\* attached, on the enablement of the three buttons, on the cooldown
\* timestamp and on the activations performed (the elements clicked by the
\* step and the readings of all clicks so far); the log window holds one
\* entry per activation and is the only difference.
C22_VariantsAgree ==
  /\ plain_SessionState = SessionState
  /\ plain_paused = paused
  /\ (plain_intervalId = Null) = (intervalId = Null)
  /\ (plain_observer = Null) = (observer = Null)
  /\ Cardinality(plain_timers) = Cardinality(timers)
  /\ Cardinality(plain_observing) = Cardinality(observing)
  /\ plain_startDisabled = startDisabled
  /\ plain_pauseDisabled = pauseDisabled
  /\ plain_stopDisabled = stopDisabled
  /\ plain_lastClick = lastClick
  /\ plain_clicked = clicked
  /\ plain_clickTimes = clickTimes
  /\ Len(log) = Len(plain_clickTimes)

\* both variants have activated twice, were paused and have been started
\* again
C22_Witness ==
  /\ lastOp = "start"
  /\ prevState = "Paused"
  /\ plain_SessionState = "Running"
  /\ Len(plain_clickTimes) >= 2
  /\ Len(log) >= 2

====
